---- MODULE Spec2Model ----
(***************************************************************************)
(* Model of caseclient.py: the CASEClient class (credential loading, the   *)
(* OAuth2 client-credentials token request, the bearer liveness check, the *)
(* authenticated GET with its single refresh-and-retry, and the paginated  *)
(* get_documents loop).  The program is single threaded and synchronous;   *)
(* every network call is one step whose answer the remote side chooses.    *)
(***************************************************************************)
EXTENDS Integers, Sequences, FiniteSets, TLC

(* ---------------------------------------------------------------------- *)
(* Program constants                                                      *)
(* ---------------------------------------------------------------------- *)
chunk_size == 50

max_requests == 10

(* ---------------------------------------------------------------------- *)
(* Bounds of the model                                                    *)
(* ---------------------------------------------------------------------- *)
\* 401/403 answers the resource endpoint gives during one get_documents call
MaxDenied == 2

\* pages of the dataset that are short (neither empty nor full)
MaxShort == 1

\* length of a short page
ShortPage == 23

(* ---------------------------------------------------------------------- *)
(* Values                                                                 *)
(* ---------------------------------------------------------------------- *)
\* Python's None, for the string-valued attributes
None == "<None>"

\* constructor arguments: absent, empty (falsy) or given
ArgIds == {None, "", "id"}

ArgSecrets == {None, "", "secret"}

\* what the credential file holds when it exists
FILE_CLIENT_ID == "file_id"

FILE_CLIENT_SECRET == "file_secret"

\* access tokens the token endpoint may issue
Tokens == {"tokA", "tokB"}

\* HTTP status codes the resource endpoint may answer with
Statuses == {200, 401, 403, 500}

\* HTTP status codes the bearercheck and clienttoken endpoints may answer with
AuthStatuses == {200, 401}

PageSizes == {0, ShortPage, chunk_size}

VARIABLES
    pc,            \* position of the program
    frame,         \* <<arguments of __init__, whether CREDENTIALS_PATH exists>>
                   \* while __init__ runs, <<>> afterwards
    client_id,     \* self.client_id
    client_secret, \* self.client_secret
    access_token,  \* self.access_token
    exit_code,     \* <<>> while running, <<c>> after sys.exit(c)
    url,           \* get: offset in the querystring of the url
    response,      \* get: local variable response
    trace,         \* network calls of the current operation (__init__ or get)
    authenticated, \* what is_authenticated returned to the current operation
    documents,     \* get_documents: local variable documents
    done,          \* get_documents: local variable done
    counter,       \* get_documents: local variable counter
    iters,         \* get_documents: calls of self.get made by this call
    docNet,        \* get_documents: network calls made by this call
    offsets,       \* get_documents: offset parameter of each call of self.get
    limits,        \* get_documents: limit parameter of each call of self.get
    denied,        \* 401/403 answers of the resource endpoint in this call
    dataset,       \* remote dataset: page index -> size of the page served
    outcome,       \* how the last top-level operation ended
    result,        \* value returned by the last get_documents call
    prev           \* outcome, result and offsets of the call before

vars == <<pc, frame, client_id, client_secret, access_token, exit_code, url,
          response, trace, authenticated, documents, done, counter, iters, docNet, offsets,
          limits, denied, dataset, outcome, result, prev>>

clientVars == <<client_id, client_secret>>

localVars == <<documents, done, counter>>

NoResponse == [err |-> FALSE, status |-> 0, size |-> 0]

NoPrev == [outcome |-> "none", result |-> <<>>, offsets |-> <<>>]

(* ---------------------------------------------------------------------- *)
(* Pure helpers                                                           *)
(* ---------------------------------------------------------------------- *)
\* truth value of a Python string-or-None
Truthy(v) == v # None /\ v # ""

\* requests.Response.ok: raise_for_status() raises for 4xx and 5xx only
ok(status) == ~(400 <= status /\ status < 600)

\* variant: every failed response starts the liveness check
Unauthorized_any_error(status) == status >= 400

\* the test of line 110
Unauthorized(status) == status \in {401, 403}

\* variant: one of the two arguments is enough
ArgsGiven_either(f) == Truthy(f.client_id) \/ Truthy(f.client_secret)

\* the test of line 42
ArgsGiven(f) == Truthy(f.client_id) /\ Truthy(f.client_secret)

\* variant: the offset is the number of records fetched so far
Offset_records_so_far(c) == Len(documents)

\* 'offset': chunk_size*counter
Offset(c) == chunk_size * c

\* 'limit': chunk_size
Limit == chunk_size

\* the bearer token of the header built at lines 105-107
Bearer == access_token

\* variant: the retry is sent with the header built before the refresh
RetryBearer_stale_header == trace[1].token

\* the bearer token of the header rebuilt at lines 113-115
RetryBearer == access_token

\* variant: the loop test is off by one
LoopTest_off_by_one(d, c) == d = FALSE /\ c <= max_requests

\* while done == False and counter < max_requests
LoopTest(d, c) == d = FALSE /\ c < max_requests

\* documents.extend(documents_chunk)
Extend(docs, chunk) == docs \o chunk

\* the records the remote side serves for a page of n records at offset u
Page(u, n) == [i \in 1..n |-> u + i]

\* response.json()['CFDocuments'] of a response to the request for offset u
CFDocuments(u, r) == Page(u, r.size)

(* ---------------------------------------------------------------------- *)
(* The remote side                                                        *)
(* ---------------------------------------------------------------------- *)
\* a transport-level failure: requests raises ConnectionError, no response
NetFail == [err |-> TRUE, status |-> 0, size |-> 0]

PageIndex(u) == u \div chunk_size

ShortPages == {i \in DOMAIN dataset : dataset[i] \notin {0, chunk_size}}

\* sizes the page at offset u can have: the dataset does not change
SizesAt(u) ==
    IF PageIndex(u) \in DOMAIN dataset
    THEN {dataset[PageIndex(u)]}
    ELSE {n \in PageSizes :
            n \in {0, chunk_size} \/ Cardinality(ShortPages) < MaxShort}

\* answers of the resource endpoint to GET .../CFDocuments?offset=u
ResourceResponses(u) ==
    {NetFail}
    \cup {[err |-> FALSE, status |-> s, size |-> 0] :
            s \in {t \in Statuses :
                     ~ok(t) /\ (t \in {401, 403} => denied < MaxDenied)}}
    \cup {[err |-> FALSE, status |-> s, size |-> n] :
            s \in {t \in Statuses : ok(t)}, n \in SizesAt(u)}

Served(u, r) ==
    IF ~r.err /\ ok(r.status)
    THEN [i \in DOMAIN dataset \cup {PageIndex(u)} |->
            IF i = PageIndex(u) THEN r.size ELSE dataset[i]]
    ELSE dataset

\* answers of the bearercheck endpoint
CheckResponses ==
    {NetFail} \cup {[err |-> FALSE, status |-> s, size |-> 0] : s \in AuthStatuses}

\* answers of the clienttoken endpoint: a successful one carries a token
TokenResponses ==
    {[err |-> TRUE, status |-> 0, token |-> None]}
    \cup {[err |-> FALSE, status |-> s, token |-> None] :
            s \in {t \in AuthStatuses : ~ok(t)}}
    \cup {[err |-> FALSE, status |-> s, token |-> t] :
            s \in {u \in AuthStatuses : ok(u)}, t \in Tokens}

Call(op, r, tok) == [op |-> op, err |-> r.err, status |-> r.status, token |-> tok]

(* ---------------------------------------------------------------------- *)
(* Initial state: before CASEClient(...) runs                             *)
(* ---------------------------------------------------------------------- *)
Init ==
    /\ pc = "set_credentials"
    /\ frame \in {<<f>> : f \in [client_id : ArgIds, client_secret : ArgSecrets,
                                 file_exists : BOOLEAN]}
    /\ client_id = None
    /\ client_secret = None
    /\ access_token = None
    /\ exit_code = <<>>
    /\ url = 0
    /\ response = NoResponse
    /\ trace = <<>>
    /\ authenticated = "None"
    /\ documents = <<>>
    /\ done = FALSE
    /\ counter = 0
    /\ iters = 0
    /\ docNet = 0
    /\ offsets = <<>>
    /\ limits = <<>>
    /\ denied = 0
    /\ dataset = [i \in {} |-> 0]
    /\ outcome = "none"
    /\ result = <<>>
    /\ prev = NoPrev

(* ---------------------------------------------------------------------- *)
(* Ends of an operation                                                   *)
(* ---------------------------------------------------------------------- *)
InCtor == pc \in {"init_token", "init_check"}

\* an exception leaves get and get_documents (or __init__) and, uncaught by
\* the caller (lines 162-163), ends the run: nothing is returned
Raise(e) ==
    /\ pc' = IF InCtor THEN "ctor_raised" ELSE "raised"
    /\ outcome' = e
    /\ result' = <<>>
    /\ frame' = <<>>

\* return documents (line 151)
Return(docs) ==
    /\ pc' = "idle"
    /\ outcome' = "returned"
    /\ result' = docs
    /\ UNCHANGED frame

(* ---------------------------------------------------------------------- *)
(* CASEClient.set_credentials, called first by __init__                   *)
(* ---------------------------------------------------------------------- *)
set_credentials ==
    /\ pc = "set_credentials"
    /\ IF ArgsGiven(frame[1])
       THEN /\ client_id' = frame[1].client_id
            /\ client_secret' = frame[1].client_secret
            /\ pc' = "init_token"
            /\ UNCHANGED <<exit_code, outcome>>
       ELSE IF frame[1].file_exists
       THEN /\ client_id' = FILE_CLIENT_ID
            /\ client_secret' = FILE_CLIENT_SECRET
            /\ pc' = "init_token"
            /\ UNCHANGED <<exit_code, outcome>>
       ELSE /\ pc' = "exited"
            /\ exit_code' = <<-2>>
            /\ outcome' = "SystemExit"
            /\ UNCHANGED clientVars
    /\ UNCHANGED <<frame, access_token, url, response, trace, authenticated,
                   localVars, iters, docNet, offsets, limits, denied, dataset,
                   result, prev>>

(* ---------------------------------------------------------------------- *)
(* CASEClient.obtain_access_token, called by __init__ and by get          *)
(* ---------------------------------------------------------------------- *)
\* variant: the failure of the token request is swallowed and the caller
\* goes on with the token it has
AssertFailed_swallowed ==
    /\ pc' = IF InCtor THEN "init_check" ELSE "get_retry"
    /\ UNCHANGED <<access_token, outcome, result, frame>>

\* assert response.ok fails (line 80)
AssertFailed ==
    /\ Raise("AssertionError")
    /\ UNCHANGED access_token

\* variant: the token is left in the local variable, self.access_token is
\* not assigned
StoreToken_local_only(r) ==
    /\ pc' = IF InCtor THEN "init_check" ELSE "get_retry"
    /\ UNCHANGED <<access_token, outcome, result, frame>>

\* self.access_token = response.json()['access_token'] (lines 81-82), and the
\* return to the caller
StoreToken(r) ==
    /\ access_token' = r.token
    /\ pc' = IF InCtor THEN "init_check" ELSE "get_retry"
    /\ UNCHANGED <<outcome, result, frame>>

obtain_access_token ==
    /\ pc \in {"init_token", "get_refresh"}
    /\ \E r \in TokenResponses :
        /\ trace' = Append(trace, Call("POST", r, r.token))
        /\ docNet' = IF InCtor THEN docNet ELSE docNet + 1
        /\ IF r.err
           THEN Raise("ConnectionError") /\ UNCHANGED access_token
           ELSE IF ~ok(r.status)
           THEN AssertFailed
           ELSE StoreToken(r)
    /\ UNCHANGED <<clientVars, exit_code, url, response, authenticated,
                   localVars, iters, offsets, limits, denied, dataset, prev>>

(* ---------------------------------------------------------------------- *)
(* Lines 117-122 of get, then lines 145-151 of get_documents              *)
(* ---------------------------------------------------------------------- *)
\* variant: an empty page does not set done
LoopBody_never_done(chunk) ==
    LET nonempty == chunk # <<>>
        docs == IF nonempty THEN Extend(documents, chunk) ELSE documents
        c    == IF nonempty THEN counter + 1 ELSE counter
        d    == done
    IN  /\ documents' = docs
        /\ counter' = c
        /\ done' = d
        /\ IF LoopTest(d, c)
           THEN pc' = "get" /\ UNCHANGED <<outcome, result, frame>>
           ELSE Return(docs)

\* variant: a page shorter than chunk_size ends the loop
LoopBody_stop_on_short(chunk) ==
    LET nonempty == chunk # <<>>
        docs == IF nonempty THEN Extend(documents, chunk) ELSE documents
        c    == IF nonempty THEN counter + 1 ELSE counter
        d    == IF Len(chunk) = chunk_size THEN done ELSE TRUE
    IN  /\ documents' = docs
        /\ counter' = c
        /\ done' = d
        /\ IF LoopTest(d, c)
           THEN pc' = "get" /\ UNCHANGED <<outcome, result, frame>>
           ELSE Return(docs)

\* the loop body after data = self.get(...), and the next loop test
LoopBody(chunk) ==
    LET nonempty == chunk # <<>>
        docs == IF nonempty THEN Extend(documents, chunk) ELSE documents
        c    == IF nonempty THEN counter + 1 ELSE counter
        d    == IF nonempty THEN done ELSE TRUE
    IN  /\ documents' = docs
        /\ counter' = c
        /\ done' = d
        /\ IF LoopTest(d, c)
           THEN pc' = "get" /\ UNCHANGED <<outcome, result, frame>>
           ELSE Return(docs)

\* variant: a failed page request ends the loop and the pages fetched so far
\* are returned
Finish_partial_list(u, r) ==
    IF ok(r.status)
    THEN LoopBody(CFDocuments(u, r))
    ELSE Return(documents) /\ UNCHANGED localVars

\* get: return response.json() or raise_for_status()
Finish(u, r) ==
    IF ok(r.status)
    THEN LoopBody(CFDocuments(u, r))
    ELSE Raise("HTTPError") /\ UNCHANGED localVars

(* ---------------------------------------------------------------------- *)
(* CASEClient.is_authenticated, called by __init__ and by get             *)
(* ---------------------------------------------------------------------- *)
\* requests.get raised (line 86): nothing in is_authenticated catches it
CheckFailed ==
    /\ Raise("ConnectionError")
    /\ UNCHANGED <<authenticated, localVars>>

\* variant: __init__ asks for another token when the check says not live
Checked_init_retries(live) ==
    /\ authenticated' = IF live THEN "True" ELSE "False"
    /\ IF InCtor
       THEN /\ pc' = IF live THEN "idle" ELSE "init_token"
            /\ outcome' = IF live THEN "constructed" ELSE outcome
            /\ frame' = IF live THEN <<>> ELSE frame
            /\ UNCHANGED <<result, localVars>>
       ELSE IF ~live
       THEN /\ pc' = "get_refresh"
            /\ UNCHANGED <<outcome, result, frame, localVars>>
       ELSE Finish(url, response)

\* variant: get refreshes the token whatever the liveness check said
Checked_refresh_always(live) ==
    /\ authenticated' = IF live THEN "True" ELSE "False"
    /\ IF InCtor
       THEN /\ pc' = "idle"
            /\ outcome' = "constructed"
            /\ frame' = <<>>
            /\ UNCHANGED <<result, localVars>>
       ELSE /\ pc' = "get_refresh"
            /\ UNCHANGED <<outcome, result, frame, localVars>>

\* is_authenticated returned live (True or False) to its caller
Checked(live) ==
    /\ authenticated' = IF live THEN "True" ELSE "False"
    /\ IF InCtor
       THEN /\ pc' = "idle"
            /\ outcome' = "constructed"
            /\ frame' = <<>>
            /\ UNCHANGED <<result, localVars>>
       ELSE IF ~live
       THEN /\ pc' = "get_refresh"
            /\ UNCHANGED <<outcome, result, frame, localVars>>
       ELSE Finish(url, response)

is_authenticated ==
    /\ pc \in {"init_check", "get_check"}
    /\ \E r \in CheckResponses :
        /\ trace' = Append(trace, Call("CHECK", r, access_token))
        /\ docNet' = IF InCtor THEN docNet ELSE docNet + 1
        /\ IF r.err
           THEN CheckFailed
           ELSE Checked(ok(r.status))
    /\ UNCHANGED <<clientVars, access_token, exit_code, url, response, iters,
                   offsets, limits, denied, dataset, prev>>

(* ---------------------------------------------------------------------- *)
(* CASEClient.get_documents: entry, lines 130-137                         *)
(* ---------------------------------------------------------------------- *)
\* variant: documents outlives the call (a list shared between calls)
FreshLocals_shared_list ==
    /\ documents' = documents
    /\ done' = FALSE
    /\ counter' = 0

\* documents = [], done = False, counter = 0
FreshLocals ==
    /\ documents' = <<>>
    /\ done' = FALSE
    /\ counter' = 0

get_documents ==
    /\ pc = "idle"
    /\ prev' = [outcome |-> outcome, result |-> result, offsets |-> offsets]
    /\ FreshLocals
    /\ iters' = 0
    /\ docNet' = 0
    /\ offsets' = <<>>
    /\ limits' = <<>>
    /\ denied' = 0
    /\ url' = 0
    /\ response' = NoResponse
    /\ trace' = <<>>
    /\ authenticated' = "None"
    /\ IF LoopTest(FALSE, 0)
       THEN pc' = "get" /\ outcome' = "none" /\ result' = <<>>
       ELSE pc' = "idle" /\ outcome' = "returned" /\ result' = <<>>
    /\ UNCHANGED <<frame, clientVars, access_token, exit_code, dataset>>

(* ---------------------------------------------------------------------- *)
(* CASEClient.get: lines 99-110, the first request of a loop iteration    *)
(* ---------------------------------------------------------------------- *)
\* variant: a server error also starts the liveness check and the retry
AfterFirst_retry_server_error(u, r) ==
    IF Unauthorized(r.status) \/ r.status >= 500
    THEN /\ pc' = "get_check"
         /\ UNCHANGED <<outcome, result, frame, localVars>>
    ELSE Finish(u, r)

\* what follows the first response (lines 110-122)
AfterFirst(u, r) ==
    IF Unauthorized(r.status)
    THEN /\ pc' = "get_check"
         /\ UNCHANGED <<outcome, result, frame, localVars>>
    ELSE Finish(u, r)

get ==
    /\ pc = "get"
    /\ LET u == Offset(counter) IN
       \E r \in ResourceResponses(u) :
        /\ url' = u
        /\ iters' = iters + 1
        /\ offsets' = Append(offsets, u)
        /\ limits' = Append(limits, Limit)
        /\ trace' = <<Call("GET", r, Bearer)>>
        /\ authenticated' = "None"
        /\ docNet' = docNet + 1
        /\ response' = r
        /\ dataset' = Served(u, r)
        /\ denied' = IF ~r.err /\ r.status \in {401, 403} THEN denied + 1 ELSE denied
        /\ IF r.err
           THEN Raise("ConnectionError") /\ UNCHANGED localVars
           ELSE AfterFirst(u, r)
    /\ UNCHANGED <<clientVars, access_token, exit_code, prev>>

(* ---------------------------------------------------------------------- *)
(* CASEClient.get: lines 113-122, the retry after a token refresh         *)
(* ---------------------------------------------------------------------- *)
\* variant: line 116 does not rebind response, the first response is tested
AfterRetry_stale_response(r) ==
    /\ response' = response
    /\ Finish(url, response)

\* variant: the second response is handled like the first one
AfterRetry_again(r) ==
    /\ response' = r
    /\ AfterFirst(url, r)

\* what follows the second response (lines 117-122): no further retry
AfterRetry(r) ==
    /\ response' = r
    /\ Finish(url, r)

get_retry ==
    /\ pc = "get_retry"
    /\ \E r \in ResourceResponses(url) :
        /\ trace' = Append(trace, Call("GET", r, RetryBearer))
        /\ docNet' = docNet + 1
        /\ dataset' = Served(url, r)
        /\ denied' = IF ~r.err /\ r.status \in {401, 403} THEN denied + 1 ELSE denied
        /\ IF r.err
           THEN Raise("ConnectionError") /\ UNCHANGED <<localVars, response>>
           ELSE AfterRetry(r)
    /\ UNCHANGED <<clientVars, access_token, exit_code, url, iters, offsets,
                   limits, authenticated, prev>>

Next ==
    \/ set_credentials
    \/ obtain_access_token
    \/ is_authenticated
    \/ get_documents
    \/ get
    \/ get_retry

Spec == Init /\ [][Next]_vars

\* the run of __main__ (lines 162-163): the client is constructed and
\* get_documents is called once
NextMain ==
    \/ set_credentials
    \/ obtain_access_token
    \/ is_authenticated
    \/ (outcome = "constructed" /\ get_documents)
    \/ get
    \/ get_retry

\* every network call returns (with a response or a transport error): a
\* pending requests.post / requests.get step is eventually taken
FairSpec ==
    /\ Init /\ [][NextMain]_vars
    /\ WF_vars(get)
    /\ WF_vars(get_retry)
    /\ WF_vars(is_authenticated)
    /\ WF_vars(obtain_access_token)

(* ====================================================================== *)
(* Properties                                                             *)
(* ====================================================================== *)
Last(t) == t[Len(t)]

CountOp(t, op) == Cardinality({i \in DOMAIN t : t[i].op = op})

Success(status) == status \in 200..299

\* the trace is that of a call of get (not of __init__)
GetTrace == trace # <<>> /\ trace[1].op = "GET"

\* the records of the first k pages of the dataset, in page order
RECURSIVE PagesUpTo(_)
PagesUpTo(k) ==
    IF k = 0 THEN <<>>
    ELSE PagesUpTo(k - 1) \o [i \in 1..dataset[k - 1] |-> chunk_size * (k - 1) + i]

Returned == pc = "idle" /\ outcome = "returned"

(* ---------------------------------------------------------------------- *)
(* C1                                                                     *)
(* ---------------------------------------------------------------------- *)
\* get has answered a first 401/403 with a second request that succeeded
RetriedOk ==
    /\ Len(trace) > 1
    /\ trace[1].op = "GET" /\ ~trace[1].err /\ trace[1].status \in {401, 403}
    /\ Last(trace).op = "GET" /\ ~Last(trace).err /\ Success(Last(trace).status)

\* C1 as stated: a GET that receives 401/403, finds the token dead, refreshes
\* and retries successfully makes exactly 2 network calls and raises nothing.
C1_TwoNetworkCalls ==
    RetriedOk => Len(trace) = 2 /\ pc # "raised"

\* C1 amended: such a GET makes exactly 2 resource GETs, and 4 network calls
\* in all (the GET, one liveness check answered not-live, one successful
\* token request, the retried GET); it raises nothing and get returns the
\* body of the retried response, which the pagination loop consumes.
C1_RetrySucceeds ==
    RetriedOk =>
        /\ Len(trace) = 4
        /\ CountOp(trace, "GET") = 2
        /\ trace[2].op = "CHECK" /\ ~trace[2].err /\ ~Success(trace[2].status)
        /\ trace[3].op = "POST" /\ ~trace[3].err /\ Success(trace[3].status)
        /\ pc \in {"get", "idle"}
        /\ outcome \in {"none", "returned"}
        /\ response.status = Last(trace).status
        /\ done = (response.size = 0)
        /\ Len(documents) >= response.size
        /\ SubSeq(documents, Len(documents) - response.size + 1, Len(documents))
             = [i \in 1..response.size |-> url + i]

C1_Witness ==
    /\ RetriedOk
    /\ trace[1].status = 401
    /\ response.size > 0
    /\ pc = "get"

(* ---------------------------------------------------------------------- *)
(* C2                                                                     *)
(* ---------------------------------------------------------------------- *)
\* the retried request of get was answered 401/403 like the first one
TwiceDenied ==
    /\ Len(trace) > 1
    /\ trace[1].op = "GET" /\ ~trace[1].err /\ trace[1].status \in {401, 403}
    /\ Last(trace).op = "GET" /\ ~Last(trace).err
    /\ Last(trace).status \in {401, 403}

\* C2: a GET answered 401/403 on its first request and again on the retry
\* raises the HTTP error to the caller without a third resource request; one
\* call of get makes at most two resource GETs, one liveness check and one
\* token request.
C2_AtMostOneRetry ==
    /\ CountOp(trace, "GET") <= 2
    /\ CountOp(trace, "CHECK") <= 1
    /\ CountOp(trace, "POST") <= 1
    /\ TwiceDenied =>
        /\ pc = "raised"
        /\ outcome = "HTTPError"
        /\ result = <<>>
        /\ ~ENABLED Next

C2_Witness ==
    /\ TwiceDenied
    /\ pc = "raised"
    /\ Len(trace) = 4

(* ---------------------------------------------------------------------- *)
(* C3                                                                     *)
(* ---------------------------------------------------------------------- *)
\* C3: get_documents returns the records of the pages served before the
\* first empty page, in server order and pages in request order; when fewer
\* than max_requests non-empty pages are followed by an empty one, the loop
\* made one request per non-empty page plus the one answered empty (and that
\* many network calls when no request was answered 401/403); a short page
\* does not end the loop.
C3_AllPagesBeforeEmpty ==
    Returned =>
        /\ \A i \in 0..(counter - 1) : i \in DOMAIN dataset /\ dataset[i] > 0
        /\ result = PagesUpTo(counter)
        /\ counter < max_requests =>
             /\ done
             /\ counter \in DOMAIN dataset
             /\ dataset[counter] = 0
             /\ iters = counter + 1
        /\ denied = 0 => docNet = iters

\* pages of 50, 50, 23 and 0 records: 123 records, 4 calls
C3_Witness ==
    /\ Returned
    /\ DOMAIN dataset = 0..3
    /\ dataset[0] = chunk_size /\ dataset[1] = chunk_size
    /\ dataset[2] = ShortPage /\ dataset[3] = 0
    /\ Len(result) = 2 * chunk_size + ShortPage
    /\ iters = 4
    /\ docNet = 4

(* ---------------------------------------------------------------------- *)
(* C4                                                                     *)
(* ---------------------------------------------------------------------- *)
AlwaysFull ==
    \A i \in 0..(max_requests - 1) : i \in DOMAIN dataset /\ dataset[i] = chunk_size

C5_OneCallPerIteration ==
    pc \in {"get", "idle", "raised"} => docNet = iters

\* C5 amended: every iteration makes exactly one call of get, which makes
\* exactly one network call unless the page request is answered 401/403;
\* then it also makes one liveness check and, when the token is not live,
\* one token request and one retried GET: between one and four network
\* calls per iteration.
C5_CallsPerIteration ==
    /\ Len(offsets) = iters
    /\ pc = "get" => iters = counter
    /\ pc \in {"get_check", "get_refresh", "get_retry"} => iters = counter + 1
    /\ iters <= docNet
    /\ docNet <= iters + 3 * denied
    /\ GetTrace =>
        /\ Len(trace) <= 4
        /\ Len(trace) > 1 => ~trace[1].err /\ trace[1].status \in {401, 403}
        /\ pc \in {"get", "idle"} /\ ~(trace[1].status \in {401, 403}) =>
             Len(trace) = 1

C5_Witness ==
    /\ pc = "get"
    /\ GetTrace
    /\ Len(trace) = 4
    /\ docNet = iters + 3

(* ---------------------------------------------------------------------- *)
(* C6                                                                     *)
(* ---------------------------------------------------------------------- *)
\* C6: is_authenticated returns True exactly when the liveness response is
\* successful; every other outcome of the liveness request, a transport
\* failure included, makes it return False and raises nothing.
C6_CheckNeverRaises ==
    (trace # <<>> /\ Last(trace).op = "CHECK") =>
        /\ authenticated \in {"True", "False"}
        /\ authenticated = "True" <=>
             (~Last(trace).err /\ Success(Last(trace).status))
        /\ outcome # "ConnectionError"

(* ---------------------------------------------------------------------- *)
(* C7                                                                     *)
(* ---------------------------------------------------------------------- *)
\* the token request made by get was answered with a failure status
RefreshFailed ==
    /\ GetTrace
    /\ Last(trace).op = "POST" /\ ~Last(trace).err
    /\ ~Success(Last(trace).status)

\* C7: when the token refresh inside get fails at the token endpoint, the
\* assertion error reaches the caller of get: no retried GET is sent, get
\* returns nothing and the stored access token is the one it was.
C7_RefreshFailurePropagates ==
    RefreshFailed =>
        /\ pc = "raised"
        /\ outcome = "AssertionError"
        /\ result = <<>>
        /\ CountOp(trace, "GET") = 1
        /\ access_token = trace[1].token
        /\ ~ENABLED Next

C7_Witness ==
    /\ RefreshFailed
    /\ pc = "raised"
    /\ documents # <<>>

(* ---------------------------------------------------------------------- *)
(* C8                                                                     *)
(* ---------------------------------------------------------------------- *)
\* the last network call is a token request that got a response
TokenAnswered ==
    /\ trace # <<>>
    /\ Last(trace).op = "POST" /\ ~Last(trace).err

\* the token stored when the token request was made
TokenBefore == IF GetTrace THEN trace[1].token ELSE None

C9_Idempotent ==
    Returned /\ prev.outcome = "returned" =>
        /\ result = prev.result
        /\ offsets = prev.offsets

C9_Witness ==
    /\ Returned
    /\ prev.outcome = "returned"
    /\ Len(result) = 2 * chunk_size + ShortPage
    /\ Len(prev.result) = 2 * chunk_size + ShortPage
    /\ Len(offsets) = 4

(* ---------------------------------------------------------------------- *)
(* C10                                                                    *)
(* ---------------------------------------------------------------------- *)
\* __init__ is past set_credentials and had credentials neither in its
\* arguments nor in the credential file
NoCredentials ==
    /\ frame # <<>>
    /\ pc # "set_credentials"
    /\ ~(frame[1].client_id \notin {None, ""}
         /\ frame[1].client_secret \notin {None, ""})
    /\ ~frame[1].file_exists

\* C10: without credentials in the arguments (both of them) and without a
\* credential file, construction exits the process with code -2 before any
\* network request is made.
C10_ExitWithoutCredentials ==
    NoCredentials =>
        /\ pc = "exited"
        /\ exit_code = <<-2>>
        /\ trace = <<>>
        /\ docNet = 0
        /\ access_token = None
        /\ ~ENABLED Next

C10_Witness ==
    /\ pc = "exited"
    /\ exit_code = <<-2>>
    /\ frame[1].client_id = "id"
    /\ frame[1].client_secret = ""

(* ---------------------------------------------------------------------- *)
(* C11                                                                    *)
(* ---------------------------------------------------------------------- *)
\* the first request of get was answered 401/403 and the liveness check
\* answered that the token is live
DeniedButLive ==
    /\ GetTrace
    /\ Len(trace) >= 2
    /\ ~trace[1].err /\ trace[1].status \in {401, 403}
    /\ trace[2].op = "CHECK" /\ ~trace[2].err /\ Success(trace[2].status)

\* C11: when a GET is answered 401/403 and the liveness check reports the
\* token live, get refreshes nothing and retries nothing: it raises the
\* HTTP error of that first response after exactly one resource request,
\* and the stored access token is unchanged.
C11_LiveTokenNoRetry ==
    DeniedButLive =>
        /\ Len(trace) = 2
        /\ CountOp(trace, "GET") = 1
        /\ CountOp(trace, "POST") = 0
        /\ authenticated = "True"
        /\ pc = "raised"
        /\ outcome = "HTTPError"
        /\ result = <<>>
        /\ response.status = trace[1].status
        /\ access_token = trace[1].token
        /\ ~ENABLED Next

C11_Witness ==
    /\ DeniedButLive
    /\ trace[1].status = 403
    /\ pc = "raised"
    /\ iters = 2

(* ---------------------------------------------------------------------- *)
(* C12                                                                    *)
(* ---------------------------------------------------------------------- *)
\* the first request of get was answered with a failure other than 401/403
OtherFailure ==
    /\ GetTrace
    /\ ~trace[1].err
    /\ ~Success(trace[1].status)
    /\ trace[1].status \notin {401, 403}

\* C12: a resource GET answered with a failure status other than 401/403 is
\* not retried: get raises the HTTP error after exactly one resource
\* request, without liveness check or token request, the access token
\* unchanged.
C12_OtherErrorsNotRetried ==
    OtherFailure =>
        /\ Len(trace) = 1
        /\ authenticated = "None"
        /\ pc = "raised"
        /\ outcome = "HTTPError"
        /\ result = <<>>
        /\ access_token = trace[1].token
        /\ ~ENABLED Next

C12_Witness ==
    /\ OtherFailure
    /\ trace[1].status = 500
    /\ pc = "raised"
    /\ documents # <<>>

(* ---------------------------------------------------------------------- *)
(* C13                                                                    *)
(* ---------------------------------------------------------------------- *)
\* a get_documents call is running
InCall == pc \in {"get", "get_check", "get_refresh", "get_retry"}

\* the call has returned or raised
Ended == pc \in {"idle", "raised"}

\* network calls the current call of get can still make
Rank ==
    CASE pc = "get" -> 4
      [] pc = "get_check" -> 3
      [] pc = "get_refresh" -> 2
      [] pc = "get_retry" -> 1
      [] OTHER -> 0

\* network calls the running get_documents call can still make
Measure == 4 * (max_requests - counter) + Rank

\* C13: get_documents always terminates, whatever the server answers: while
\* the call runs it has made at most max_requests iterations, a network call
\* is pending (the call is never stuck otherwise), every step strictly
\* decreases the number of network calls that can still be made, and the
\* call either raises or returns the accumulated list; as every network
\* call returns, the call ends.
C13_Terminates ==
    /\ [](InCall => iters <= max_requests /\ Measure > 0 /\ ENABLED Next)
    /\ [][InCall => /\ Measure' < Measure
                    /\ pc' \in {"get", "get_check", "get_refresh", "get_retry",
                                "idle", "raised"}
                    /\ pc' = "idle" => outcome' = "returned" /\ result' = documents'
                    /\ pc' = "raised" => outcome' \in {"HTTPError", "AssertionError",
                                                       "ConnectionError"}]_vars
    /\ InCall ~> Ended

C13_Witness ==
    /\ pc = "idle"
    /\ outcome = "returned"
    /\ iters = max_requests
    /\ docNet = max_requests + 3 * MaxDenied

(* ---------------------------------------------------------------------- *)
(* C14                                                                    *)
(* ---------------------------------------------------------------------- *)
\* the current call of get has refreshed the token
Refreshed ==
    /\ Len(trace) >= 3
    /\ trace[3].op = "POST" /\ ~trace[3].err /\ Success(trace[3].status)

\* C14: the client holds one access token, and every resource GET carries
\* the token stored when it is sent: the first request of a call of get
\* carries the stored token, the liveness check asks about that token, a
\* token request is made only after a 401/403 and a not-live answer, and the
\* retry carries the token that request obtained; the stored token changes
\* in no other step, so later calls of get carry it until it is rejected.
C14_StoredTokenCarried ==
    /\ [](/\ access_token \in Tokens \cup {None}
          /\ GetTrace =>
               /\ ~Refreshed => access_token = trace[1].token
               /\ Len(trace) >= 2 =>
                    /\ trace[2].op = "CHECK"
                    /\ trace[2].token = trace[1].token
               /\ Len(trace) >= 3 =>
                    /\ trace[3].op = "POST"
                    /\ trace[1].status \in {401, 403}
                    /\ ~trace[2].err /\ ~Success(trace[2].status)
               /\ Refreshed => access_token = trace[3].token
               /\ Len(trace) >= 4 =>
                    /\ Len(trace) = 4
                    /\ trace[4].op = "GET"
                    /\ trace[4].token = trace[3].token
                    /\ trace[4].token = access_token)
    /\ [][access_token' # access_token =>
            /\ pc \in {"init_token", "get_refresh"}
            /\ Last(trace').op = "POST"
            /\ Success(Last(trace').status)
            /\ access_token' = Last(trace').token]_vars

C14_Witness ==
    /\ GetTrace
    /\ Len(trace) = 4
    /\ trace[1].token = "tokA"
    /\ trace[4].token = "tokB"
    /\ Success(trace[4].status)
    /\ pc = "get"

(* ---------------------------------------------------------------------- *)
(* C15                                                                    *)
(* ---------------------------------------------------------------------- *)
\* C15: the offset of every page request of get_documents is chunk_size
\* times the number of non-empty pages accumulated so far, so the offsets of
\* the page requests are 0, chunk_size, 2*chunk_size, ... without gap or
\* repetition, and the limit of every request is chunk_size.
C15_OffsetsAdvanceByPage ==
    /\ Len(offsets) = iters
    /\ Len(limits) = iters
    /\ \A i \in 1..Len(offsets) :
         /\ offsets[i] = chunk_size * (i - 1)
         /\ limits[i] = chunk_size
    /\ \A i \in 1..counter :
         /\ (i - 1) \in DOMAIN dataset
         /\ dataset[i - 1] > 0
    /\ pc \in {"get_check", "get_refresh", "get_retry"} =>
         /\ iters = counter + 1
         /\ url = chunk_size * counter
         /\ Last(offsets) = url
    /\ pc = "get" => iters = counter
    /\ pc = "idle" /\ outcome = "returned" =>
         iters = IF done THEN counter + 1 ELSE counter

C15_Witness ==
    /\ pc = "get_retry"
    /\ offsets = <<0, chunk_size, 2 * chunk_size, 3 * chunk_size>>
    /\ limits = <<chunk_size, chunk_size, chunk_size, chunk_size>>
    /\ dataset[1] = ShortPage
    /\ Len(documents) = 2 * chunk_size + ShortPage

(* ---------------------------------------------------------------------- *)
(* C16                                                                    *)
(* ---------------------------------------------------------------------- *)
\* the current call of get has ultimately failed
GetFailed ==
    /\ GetTrace
    /\ \/ Last(trace).err
       \/ /\ Last(trace).op = "GET"
          /\ ~Success(Last(trace).status)
          /\ Len(trace) > 1 \/ Last(trace).status \notin {401, 403}
       \/ Last(trace).op = "POST" /\ ~Success(Last(trace).status)
       \/ Last(trace).op = "CHECK" /\ Success(Last(trace).status)

\* C16: when a page request of get_documents ultimately fails (an HTTP error
\* after the single retry or without one, a failed token refresh, a
\* transport error) get_documents fails with that error and returns nothing,
\* not the pages fetched so far; it returns only after a successful page
\* request, on an empty page or with max_requests pages.
C16_NoPartialList ==
    /\ GetFailed =>
         /\ pc = "raised"
         /\ result = <<>>
         /\ outcome = IF Last(trace).err THEN "ConnectionError"
                      ELSE IF Last(trace).op = "POST" THEN "AssertionError"
                      ELSE "HTTPError"
         /\ ~ENABLED Next
    /\ pc = "raised" => GetFailed
    /\ pc = "idle" /\ outcome = "returned" =>
         /\ ~GetFailed
         /\ Last(trace).op = "GET" /\ Success(Last(trace).status)
         /\ \/ done /\ response.size = 0
            \/ ~done /\ counter = max_requests

C16_Witness ==
    /\ pc = "raised"
    /\ outcome = "HTTPError"
    /\ Len(trace) = 4
    /\ Len(documents) = chunk_size + ShortPage
    /\ result = <<>>

(* ---------------------------------------------------------------------- *)
(* C17                                                                    *)
(* ---------------------------------------------------------------------- *)
\* __init__ has made its token request and got a successful answer
InitTokenOk ==
    /\ trace # <<>>
    /\ trace[1].op = "POST" /\ ~trace[1].err /\ Success(trace[1].status)

\* C17: construction loads the credentials, then makes exactly one token
\* request, then exactly one liveness check; a failure answer of the token
\* endpoint aborts construction before any liveness check, whereas a
\* not-live answer of the liveness check leaves the client constructed and
\* causes no second token request.
C17_ConstructionOrder ==
    /\ pc = "set_credentials" => trace = <<>> /\ client_id = None
    /\ pc = "init_token" =>
         /\ trace = <<>>
         /\ client_id \notin {None, ""} /\ client_secret \notin {None, ""}
         /\ access_token = None
    /\ pc = "init_check" =>
         /\ Len(trace) = 1
         /\ InitTokenOk
         /\ access_token = trace[1].token
    /\ (trace # <<>> /\ trace[1].op = "POST" /\ ~trace[1].err
          /\ ~Success(trace[1].status)) =>
         /\ pc = "ctor_raised"
         /\ outcome = "AssertionError"
         /\ Len(trace) = 1
         /\ access_token = None
         /\ ~ENABLED Next
    /\ (InitTokenOk /\ Len(trace) >= 2) =>
         /\ Len(trace) = 2
         /\ trace[2].op = "CHECK"
         /\ trace[2].token = trace[1].token
         /\ access_token = trace[1].token
         /\ ~trace[2].err =>
              /\ pc = "idle"
              /\ outcome = "constructed"
              /\ authenticated = IF Success(trace[2].status) THEN "True" ELSE "False"
    /\ outcome = "constructed" => InitTokenOk /\ Len(trace) = 2

C17_Witness ==
    /\ pc = "idle"
    /\ outcome = "constructed"
    /\ authenticated = "False"
    /\ Len(trace) = 2
    /\ client_id = FILE_CLIENT_ID

====
